---- MODULE Spec2Model ----
(***************************************************************************)
(* A model of the SCP detector of src/src/modules/scp-detector.js: the     *)
(* identifier normalizer, the page classifier, the link and inline         *)
(* scanners, the deduplicator and the detector controller returned by      *)
(* createDetector (debounced recomputation, subscriptions, lifecycle).     *)
(*                                                                         *)
(* Strings that the code takes apart (paths, titles, link and element      *)
(* text, ids) are sequences of one-character tokens.  Two characters       *)
(* outside ASCII have token names: "u2013" is the en dash U+2013 and       *)
(* "u2588" is the full block U+2588 of the redaction token.                *)
(***************************************************************************)
EXTENDS Integers, Sequences, FiniteSets, TLC

\* ------------------------------------------------------------------------
\* Characters
\* ------------------------------------------------------------------------

UpperSeq == <<"A","B","C","D","E","F","G","H","I","J","K","L","M",
              "N","O","P","Q","R","S","T","U","V","W","X","Y","Z">>
LowerSeq == <<"a","b","c","d","e","f","g","h","i","j","k","l","m",
              "n","o","p","q","r","s","t","u","v","w","x","y","z">>
Upper == {UpperSeq[i] : i \in DOMAIN UpperSeq}
Lower == {LowerSeq[i] : i \in DOMAIN LowerSeq}
Digit == {"0","1","2","3","4","5","6","7","8","9"}
Alnum == Upper \cup Lower \cup Digit
Space == {" "}
Block == "u2588"

\* DASH_CLASS: the hyphen variants (U+2010..U+2015 and "-"); the model's
\* texts use the en dash as the one non-ASCII variant.
DASH_CLASS == {"u2013", "-"}

IndexOf(seq, c) == CHOOSE i \in DOMAIN seq : seq[i] = c

toLowerChar(c) == IF c \in Upper THEN LowerSeq[IndexOf(UpperSeq, c)] ELSE c
toUpperChar(c) == IF c \in Lower THEN UpperSeq[IndexOf(LowerSeq, c)] ELSE c

toLowerCase(s) == [i \in DOMAIN s |-> toLowerChar(s[i])]
toUpperCase(s) == [i \in DOMAIN s |-> toUpperChar(s[i])]

\* The character at index i (1-based), or "" outside the string.
At(s, i) == IF i >= 1 /\ i <= Len(s) THEN s[i] ELSE ""

\* w occurs in s starting at index i.
HasAt(s, i, w) ==
    /\ i >= 1
    /\ i + Len(w) - 1 <= Len(s)
    /\ \A k \in 1..Len(w) : s[i + k - 1] = w[k]

Contains(s, w) == \E i \in 1..(Len(s) + 1) : HasAt(s, i, w)

\* \w of a regular expression, and \b between index i-1 and index i.
IsWordChar(c) == c \in Alnum \/ c = "_"
WordBoundary(s, i) == IsWordChar(At(s, i - 1)) # IsWordChar(At(s, i))

\* The number of characters of s from index i on that belong to cls.
RECURSIVE RunLen(_, _, _)
RunLen(s, i, cls) ==
    IF At(s, i) \in cls THEN 1 + RunLen(s, i + 1, cls) ELSE 0

Min(a, b) == IF a <= b THEN a ELSE b

\* String.prototype.trim
RECURSIVE TrimLeft(_)
TrimLeft(s) == IF s # <<>> /\ Head(s) \in Space THEN TrimLeft(Tail(s)) ELSE s
RECURSIVE TrimRight(_)
TrimRight(s) ==
    IF s # <<>> /\ s[Len(s)] \in Space THEN TrimRight(SubSeq(s, 1, Len(s) - 1)) ELSE s
trim(s) == TrimRight(TrimLeft(s))

\* ------------------------------------------------------------------------
\* Identifier Normalizer
\* ------------------------------------------------------------------------

\* normalizeIdentifier's null result.
Null == [id |-> <<>>, kind |-> "null"]

unifyDashes(text) == [i \in DOMAIN text |-> IF text[i] \in DASH_CLASS THEN "-" ELSE text[i]]

\* s.replace(/\s*-\s*/g, '-'): every hyphen swallows the white space around it.
RECURSIVE CollapseFrom(_, _)
CollapseFrom(s, i) ==
    IF i > Len(s) THEN <<>>
    ELSE LET sp == RunLen(s, i, Space) IN
         IF At(s, i + sp) = "-"
         THEN <<"-">> \o CollapseFrom(s, i + sp + 1 + RunLen(s, i + sp + 1, Space))
         ELSE <<s[i]>> \o CollapseFrom(s, i + 1)
CollapseHyphenSpaces(s) == CollapseFrom(s, 1)

\* base.replace(/^0+(?=\d)/, '')
RECURSIVE StripLeadingZeros(_)
StripLeadingZeros(b) ==
    IF Len(b) >= 2 /\ b[1] = "0" /\ b[2] \in Digit THEN StripLeadingZeros(Tail(b)) ELSE b

ScpPrefix == <<"s","c","p">>
Blocks == <<Block, Block, Block, Block>>
ClassTags == {<<"j">>, <<"e","x">>, <<"a","r","c">>, <<"d">>}

\* /-(?:j|ex|arc|d)\b/.test(id)
HasClassTag(id) ==
    \E i \in 1..Len(id) : \E t \in ClassTags :
        /\ HasAt(id, i, <<"-">> \o t)
        /\ WordBoundary(id, i + 1 + Len(t))

\* /^(?:scp-)?001\b/i.test(id)
Is001(id) ==
    LET p == IF HasAt(toLowerCase(id), 1, <<"s","c","p","-">>) THEN 5 ELSE 1 IN
    HasAt(id, p, <<"0","0","1">>) /\ WordBoundary(id, p + 3)

\* let kind = 'scp'; then the two tests, the later assignment winning.
KindOf(id) ==
    IF HasClassTag(id) THEN "scp_variant"
    ELSE IF Is001(id) THEN "proposal_or_article"
    ELSE "scp"

\* The id built from m[1] (base) and m[2] (rest, <<>> when the group did not
\* take part in the match).
IdOf(base, rest) ==
    (IF base = Blocks THEN <<"s","c","p","-","u","n","k","n","o","w","n">>
     ELSE <<"s","c","p","-">> \o StripLeadingZeros(base))
    \o (IF rest # <<>> THEN <<"-">> \o toLowerCase(rest) ELSE <<>>)

Identifier(id) == [id |-> id, kind |-> KindOf(id)]

\* (?:-([0-9A-Za-z]+))? tried at index p: group 2.
RestAt(s, p) ==
    IF At(s, p) = "-" THEN SubSeq(s, p + 1, p + RunLen(s, p + 1, Alnum)) ELSE <<>>

\* \s*-?\s* from index p on: the index after it.
SkipSpace(s, p) == p + RunLen(s, p, Space)
SkipDash(s, p) == IF At(s, p) = "-" THEN p + 1 ELSE p
BodyStart(s) == SkipSpace(s, SkipDash(s, SkipSpace(s, 4)))

\* ((?:[0-9]{1,4})|(?:the redaction token)) at index p, nd digits taken
\* there, and what follows.
MatchBody(s, p, nd) ==
    IF nd > 0 THEN Identifier(IdOf(SubSeq(s, p, p + nd - 1), RestAt(s, p + nd)))
    ELSE IF HasAt(s, p, Blocks) THEN Identifier(IdOf(Blocks, RestAt(s, p + 4)))
    ELSE Null

\* /^(?:SCP)\s*-?\s*(...)(?:-([0-9A-Za-z]+))?/i.exec(s) and what is made of it.
MatchIdentifier(s) ==
    IF HasAt(toLowerCase(s), 1, ScpPrefix)
    THEN MatchBody(s, BodyStart(s), Min(RunLen(s, BodyStart(s), Digit), 4))
    ELSE Null

normalizeIdentifier(raw) ==
    IF raw = <<>> THEN Null
    ELSE MatchIdentifier(CollapseHyphenSpaces(unifyDashes(trim(raw))))

\* ------------------------------------------------------------------------
\* Page Classifier
\* ------------------------------------------------------------------------

DEFAULT_DOMAIN_MAP ==
    [h \in {"scp-wiki.wikidot.com", "www.scp-wiki.wikidot.com", "scpwiki.com",
            "www.scpwiki.com", "scp-wiki-cn.wikidot.com", "scp-ru.wikidot.com",
            "scpko.wikidot.com", "scp-th.wikidot.com", "scp-pl.wikidot.com",
            "scp-jp.wikidot.com", "scp-es.com"} |->
        [site |-> "scp-wiki",
         locale |-> CASE h = "scp-wiki-cn.wikidot.com" -> "zh-cn"
                      [] h = "scp-ru.wikidot.com" -> "ru"
                      [] h = "scpko.wikidot.com" -> "ko"
                      [] h = "scp-th.wikidot.com" -> "th"
                      [] h = "scp-pl.wikidot.com" -> "pl"
                      [] h = "scp-jp.wikidot.com" -> "ja"
                      [] h = "scp-es.com" -> "es"
                      [] OTHER -> "en"]]

\* /\/(?:scp-)?\d{1,4}(?:-[a-z0-9]+)*/.test(pathname)
IsSCPPath(pathname) ==
    \E i \in 1..Len(pathname) :
        /\ pathname[i] = "/"
        /\ \/ At(pathname, i + 1) \in Digit
           \/ HasAt(pathname, i + 1, <<"s","c","p","-">>) /\ At(pathname, i + 5) \in Digit

\* /\/scp-?001(?!\d)/.test(pathname)
IsSCP001(pathname) ==
    \E i \in 1..Len(pathname) :
        \/ HasAt(pathname, i, <<"/","s","c","p","-","0","0","1">>)
              /\ At(pathname, i + 8) \notin Digit
        \/ HasAt(pathname, i, <<"/","s","c","p","0","0","1">>)
              /\ At(pathname, i + 7) \notin Digit

\* /\bscp-\d{1,4}\b/.test(title)
TitleHasScpNumber(title) ==
    \E i \in 1..Len(title) :
        /\ HasAt(title, i, <<"s","c","p","-">>)
        /\ WordBoundary(title, i)
        /\ LET n == RunLen(title, i + 4, Digit) IN
           n >= 1 /\ n <= 4 /\ WordBoundary(title, i + 4 + n)

\* /\bword\b/.test(s)
HasWord(s, w) ==
    \E i \in 1..Len(s) :
        HasAt(s, i, w) /\ WordBoundary(s, i) /\ WordBoundary(s, i + Len(w))

\* /series [ivx]+/i.test(title)
TitleHasSeries(title) ==
    \E i \in 1..Len(title) :
        /\ HasAt(title, i, <<"s","e","r","i","e","s"," ">>)
        /\ At(title, i + 7) \in {"i", "v", "x"}

\* DEFAULT_CONFIG.domainMap[hostname]?.site || 'unknown', and the same for
\* the locale: classifyPage reads the module-level DEFAULT_CONFIG.domainMap,
\* not the detector's configuration.
SiteOf(hostname) ==
    IF hostname \in DOMAIN DEFAULT_DOMAIN_MAP THEN DEFAULT_DOMAIN_MAP[hostname].site
    ELSE "unknown"
LocaleOf(hostname) ==
    IF hostname \in DOMAIN DEFAULT_DOMAIN_MAP THEN DEFAULT_DOMAIN_MAP[hostname].locale
    ELSE "unknown"

\* A page type heuristic that tries the hub rule before the series rule.
PageTypeHubFirst(pathname, title, site, isSCPPath) ==
    IF IsSCP001(pathname) THEN <<"proposal_or_index", "0.6">>
    ELSE IF isSCPPath \/ TitleHasScpNumber(title)
         THEN <<"scp_article", IF isSCPPath THEN "0.9" ELSE "0.6">>
    ELSE IF HasWord(pathname, <<"h","u","b">>) \/ Contains(title, <<"h","u","b">>)
         THEN <<"hub", "0.5">>
    ELSE IF HasWord(pathname, <<"s","e","r","i","e","s">>) \/ TitleHasSeries(title)
         THEN <<"series", "0.6">>
    ELSE IF HasWord(pathname, <<"t","a","l","e">>) \/ Contains(title, <<"t","a","l","e">>)
         THEN <<"tale", "0.4">>
    ELSE IF site = "scp-wiki" THEN <<"non_scp", "0.3">>
    ELSE <<"unknown", "0.1">>

\* The page type heuristic: <<type, confidence>>, the first rule that
\* applies.
PageType(pathname, title, site, isSCPPath) ==
    IF IsSCP001(pathname) THEN <<"proposal_or_index", "0.6">>
    ELSE IF isSCPPath \/ TitleHasScpNumber(title)
         THEN <<"scp_article", IF isSCPPath THEN "0.9" ELSE "0.6">>
    ELSE IF HasWord(pathname, <<"s","e","r","i","e","s">>) \/ TitleHasSeries(title)
         THEN <<"series", "0.6">>
    ELSE IF HasWord(pathname, <<"h","u","b">>) \/ Contains(title, <<"h","u","b">>)
         THEN <<"hub", "0.5">>
    ELSE IF HasWord(pathname, <<"t","a","l","e">>) \/ Contains(title, <<"t","a","l","e">>)
         THEN <<"tale", "0.4">>
    ELSE IF site = "scp-wiki" THEN <<"non_scp", "0.3">>
    ELSE <<"unknown", "0.1">>

Classification(tc, site, locale, href) ==
    [type |-> tc[1], site |-> site, locale |-> locale, canonicalUrl |-> href,
     confidence |-> tc[2]]

classifyPage(urlObj, documentTitle) ==
    Classification(PageType(toLowerCase(urlObj.pathname), toLowerCase(documentTitle),
                            SiteOf(urlObj.hostname),
                            IsSCPPath(toLowerCase(urlObj.pathname))),
                   SiteOf(urlObj.hostname), LocaleOf(urlObj.hostname), urlObj.href)

\* ------------------------------------------------------------------------
\* URLs
\* ------------------------------------------------------------------------

\* A string that holds a URL or a reference is a token sequence whose first
\* token, when the string is absolute, stands for scheme and authority
\* ("https://example.com"); the path, query and fragment follow character by
\* character.  '' is <<>>.
OriginHost ==
    [o \in {"https://scp-wiki.wikidot.com", "https://example.com", "file://"} |->
        CASE o = "https://scp-wiki.wikidot.com" -> "scp-wiki.wikidot.com"
          [] o = "https://example.com" -> "example.com"
          [] OTHER -> ""]

\* A scheme with nothing after it: new URL rejects it with or without a base.
BadOrigin == "http://"

\* The index of the first "?" or "#" of s, or Len(s) + 1.
RECURSIVE PathEnd(_, _)
PathEnd(s, i) ==
    IF i > Len(s) \/ s[i] \in {"?", "#"} THEN i ELSE PathEnd(s, i + 1)

\* The index of the last "/" of s at or before i, or 0.
RECURSIVE LastSlash(_, _)
LastSlash(s, i) == IF i = 0 \/ s[i] = "/" THEN i ELSE LastSlash(s, i - 1)

\* A parsed URL: the fields the code reads.
MakeURL(origin, rest) ==
    LET e == PathEnd(rest, 1)
        pathname == IF e = 1 THEN <<"/">> ELSE SubSeq(rest, 1, e - 1)
    IN  [ok |-> TRUE, hostname |-> OriginHost[origin], pathname |-> pathname,
         href |-> <<origin>> \o pathname \o SubSeq(rest, e, Len(rest))]

\* safeURL's null (new URL threw).
NullURL == [ok |-> FALSE, hostname |-> "", pathname |-> <<>>, href |-> <<>>]

IsAbsolute(str) == str # <<>> /\ str[1] \in DOMAIN OriginHost

\* new URL(href, base) for a reference that is not absolute, b the parsed
\* base.
Resolve(href, origin, b) ==
    IF href = <<>> THEN MakeURL(origin, b.pathname)
    ELSE IF href[1] = "/" THEN MakeURL(origin, href)
    ELSE IF href[1] \in {"?", "#"} THEN MakeURL(origin, b.pathname \o href)
    ELSE MakeURL(origin,
                 SubSeq(b.pathname, 1, LastSlash(b.pathname, Len(b.pathname))) \o href)

safeURL(href, base) ==
    IF IsAbsolute(href) THEN MakeURL(href[1], Tail(href))
    ELSE IF href # <<>> /\ href[1] = BadOrigin THEN NullURL
    ELSE IF ~IsAbsolute(base) THEN NullURL
    ELSE Resolve(href, base[1], MakeURL(base[1], Tail(base)))

\* ------------------------------------------------------------------------
\* Deduplicator
\* ------------------------------------------------------------------------

\* makeEntity's null url.
NullUrl == <<"null">>

makeEntity(id, kind, context, url, displayText, element, confidence) ==
    [id |-> id, kind |-> kind, context |-> context,
     url |-> IF url = <<>> THEN NullUrl ELSE url,
     displayText |-> displayText, element |-> element, confidence |-> confidence]

\* A score of the confidence alone.
scoreConfidence(e) ==
    (IF e.confidence = "high" THEN 3 ELSE 0)
    + (IF e.confidence = "medium" THEN 2 ELSE 0)
    + (IF e.confidence = "low" THEN 1 ELSE 0)

scoreEntity(e) ==
    (IF e.confidence = "high" THEN 3 ELSE 0)
    + (IF e.confidence = "medium" THEN 2 ELSE 0)
    + (IF e.confidence = "low" THEN 1 ELSE 0)
    + (IF e.context = "link" THEN 1 ELSE 0)

\* `${e.id}|${e.url || ''}`
DedupeKey(e) == e.id \o <<"|">> \o (IF e.url = NullUrl THEN <<>> ELSE e.url)

\* The Map of dedupeEntities as a sequence in insertion order: a later
\* candidate with a greater score replaces the entry of its key in place.
RECURSIVE DedupeInto(_, _)
DedupeInto(byKey, entities) ==
    IF entities = <<>> THEN byKey
    ELSE LET e == Head(entities)
             hit == {i \in DOMAIN byKey : DedupeKey(byKey[i]) = DedupeKey(e)}
         IN  IF hit = {}
             THEN DedupeInto(Append(byKey, e), Tail(entities))
             ELSE LET i == CHOOSE j \in hit : TRUE IN
                  IF scoreEntity(e) > scoreEntity(byKey[i])
                  THEN DedupeInto([byKey EXCEPT ![i] = e], Tail(entities))
                  ELSE DedupeInto(byKey, Tail(entities))

\* A dedupe that keeps every candidate.
dedupeNothing(entities) == entities

\* A dedupe that goes through the candidates from the last to the first.
dedupeBackwards(entities) ==
    DedupeInto(<<>>, [i \in DOMAIN entities |-> entities[Len(entities) + 1 - i]])

dedupeEntities(entities) == DedupeInto(<<>>, entities)

\* ------------------------------------------------------------------------
\* Mention Scanner
\* ------------------------------------------------------------------------

\* A selector list is the set of its simple selectors; an element carries
\* the set of simple selectors it matches (el.sel), so el.matches(list) is a
\* non-empty intersection and querySelectorAll(list) keeps document order.
DEFAULT_EXCLUDE_SELECTOR ==
    {"script", "style", "pre", "code", "textarea", "input", "select", "button",
     "[contenteditable=\"true\"]", "[data-scp-detector-exclude]"}

DEFAULT_INCLUDE_SELECTOR ==
    {"a[href]", "p", "li", "span", "div", "h1", "h2", "h3", "h4", "h5", "h6",
     "blockquote", "strong", "em", "small", "figcaption", "caption", "td", "th"}

elementExcluded(el, excludeSelectors) == el.sel \cap excludeSelectors # {}

\* The indexes of the elements of doc that match the selector list, in
\* document order.
RECURSIVE QueryFrom(_, _, _)
QueryFrom(doc, selectors, i) ==
    IF i > Len(doc.els) THEN <<>>
    ELSE (IF doc.els[i].sel \cap selectors # {} THEN <<i>> ELSE <<>>)
         \o QueryFrom(doc, selectors, i + 1)
querySelectorAll(doc, selectors) == QueryFrom(doc, selectors, 1)

\* The ends of the greedy repetition (?:-[cls]+)* started after index e:
\* e itself, then the end of each further segment.
RECURSIVE SuffixEnds(_, _, _)
SuffixEnds(s, e, cls) ==
    <<e>> \o (IF At(s, e + 1) = "-" /\ RunLen(s, e + 2, cls) > 0
              THEN SuffixEnds(s, e + 1 + RunLen(s, e + 2, cls), cls)
              ELSE <<>>)

\* The last of ends[1..k] that \b follows in path, or 0: the greedy match
\* gives way to a shorter one until \b holds after it.
RECURSIVE LastBoundary(_, _, _)
LastBoundary(path, ends, k) ==
    IF k = 0 THEN 0
    ELSE IF WordBoundary(path, ends[k] + 1) THEN ends[k]
    ELSE LastBoundary(path, ends, k - 1)

\* [0-9]{1,4}(?:-[0-9a-z]+)*\b with d digits at index p: the last index of
\* the match, or 0.
PathIdEnd(path, p, d) ==
    IF d >= 1 /\ d <= 4
    THEN LastBoundary(path, SuffixEnds(path, p + d - 1, Lower \cup Digit),
                      Len(SuffixEnds(path, p + d - 1, Lower \cup Digit)))
    ELSE 0

\* /(?:^|\/)scp-([0-9]{1,4}(?:-[0-9a-z]+)*)\b/ tried with "scp-" at index q:
\* the last index of group 1, or 0 when the expression does not match there.
PathIdEndAt(path, q) ==
    IF (q = 1 \/ At(path, q - 1) = "/") /\ HasAt(path, q, <<"s","c","p","-">>)
    THEN PathIdEnd(path, q + 4, RunLen(path, q + 4, Digit))
    ELSE 0

\* Group 1 of the leftmost match of the path expression, or <<>>.
RECURSIVE PathIdFrom(_, _)
PathIdAt(path, q, e) ==
    IF e > 0 THEN SubSeq(path, q + 4, e) ELSE PathIdFrom(path, q + 1)
PathIdFrom(path, q) ==
    IF q > Len(path) THEN <<>> ELSE PathIdAt(path, q, PathIdEndAt(path, q))
PathId(path) == PathIdFrom(path, 1)

\* The fallback to the link text (text, normalized as textNorm).
TextCandidate(el, urlObj, text, textNorm) ==
    IF text = <<>> THEN <<>>
    ELSE IF textNorm # Null
         THEN <<makeEntity(textNorm.id, textNorm.kind, "link", urlObj.href, text, el,
                           "medium")>>
    ELSE <<>>

\* The id of the path (numPart = m[1], <<>> when the expression did not
\* match; norm its normalization) comes first.
PathCandidate(a, el, urlObj, numPart, norm) ==
    IF numPart # <<>> /\ norm # Null
    THEN <<makeEntity(norm.id, norm.kind, "link", urlObj.href, trim(a.text), el, "high")>>
    ELSE TextCandidate(el, urlObj, trim(a.text),
                       normalizeIdentifier(toUpperCase(trim(a.text))))

LinkCandidate(a, el, urlObj, numPart) ==
    PathCandidate(a, el, urlObj, numPart,
                  normalizeIdentifier(<<"S","C","P","-">> \o numPart))

\* One turn of the loop of scanLinks: anchor a, the element of index el of
\* the document, its href resolved to urlObj.  scanLinks reads the
\* module-level DEFAULT_CONFIG.excludeSelectors.
ScanAnchor(a, el, urlObj) ==
    IF elementExcluded(a, DEFAULT_EXCLUDE_SELECTOR) THEN <<>>
    ELSE IF a.href = <<>> THEN <<>>
    ELSE IF ~urlObj.ok THEN <<>>
    ELSE LinkCandidate(a, el, urlObj, PathId(unifyDashes(toLowerCase(urlObj.pathname))))

RECURSIVE ScanLinksFrom(_, _, _, _)
ScanLinksFrom(doc, baseHref, anchors, i) ==
    IF i > Len(anchors) THEN <<>>
    ELSE ScanAnchor(doc.els[anchors[i]], anchors[i],
                    safeURL(doc.els[anchors[i]].href, baseHref))
         \o ScanLinksFrom(doc, baseHref, anchors, i + 1)

scanLinks(doc, baseHref) ==
    ScanLinksFrom(doc, baseHref, querySelectorAll(doc, {"a[href]"}), 1)

\* The cap on the matches taken from one element (safety++ < 20).
MaxMatchesPerElement == 20

\* ((?:[0-9]{1,4})|(?:the redaction token)) at index p, nd digits taken
\* there: the last index of group 2, or 0.
InlineBodyEnd(text, p, nd) ==
    IF nd > 0 THEN p + nd - 1
    ELSE IF HasAt(text, p, Blocks) THEN p + 3
    ELSE 0

\* (?:-[0-9A-Za-z]+)* after the body that ends at index e: greedy, and
\* nothing follows it in the expression.
InlineSuffixEnd(text, e) ==
    IF e > 0 THEN SuffixEnds(text, e, Alnum)[Len(SuffixEnds(text, e, Alnum))] ELSE 0

InlineBody(text, p) ==
    InlineSuffixEnd(text, InlineBodyEnd(text, p, Min(RunLen(text, p, Digit), 4)))

\* ID_INLINE_REGEX tried with its prefix token at index q: the last index of
\* group 1, or 0.
InlineEndAt(text, q) ==
    IF HasAt(toLowerCase(text), q, ScpPrefix)
    THEN InlineBody(text, q + 3 + RunLen(text, q + 3, Space \cup DASH_CLASS))
    ELSE 0

\* The index of the prefix token of the leftmost match that starts at index
\* from or later, or 0: the match starts at the beginning of the text, or
\* with one character that is neither a letter nor a digit.
RECURSIVE InlineNext(_, _)
InlineNext(text, from) ==
    IF from > Len(text) THEN 0
    ELSE IF from = 1 /\ InlineEndAt(text, 1) > 0 THEN 1
    ELSE IF text[from] \notin Alnum /\ InlineEndAt(text, from + 1) > 0 THEN from + 1
    ELSE InlineNext(text, from + 1)

\* The exec loop over one element's text: group 1 of each match in turn
\* (from index q to index e), the next search starting where the last
\* match ended.
RECURSIVE InlineMatches(_, _, _)
MatchesTo(text, q, e, safety) ==
    <<SubSeq(text, q, e)>> \o InlineMatches(text, e + 1, safety + 1)
MatchesAt(text, q, safety) ==
    IF q = 0 \/ safety >= MaxMatchesPerElement THEN <<>>
    ELSE MatchesTo(text, q, InlineEndAt(text, q), safety)
InlineMatches(text, from, safety) == MatchesAt(text, InlineNext(text, from), safety)

Candidate(candidate, el, norm) ==
    IF norm # Null
    THEN <<makeEntity(norm.id, norm.kind, "inline", <<>>, candidate, el, "low")>>
    ELSE <<>>

RECURSIVE CandidatesOf(_, _)
CandidatesOf(matches, el) ==
    IF matches = <<>> THEN <<>>
    ELSE Candidate(Head(matches), el, normalizeIdentifier(Head(matches)))
         \o CandidatesOf(Tail(matches), el)

\* One turn of the loop of scanInline: element e, of index el in the
\* document, with its trimmed text.  scanInline reads the module-level
\* DEFAULT_CONFIG.excludeSelectors.
ScanElement(e, el, text) ==
    IF elementExcluded(e, DEFAULT_EXCLUDE_SELECTOR) THEN <<>>
    ELSE IF text = <<>> THEN <<>>
    ELSE CandidatesOf(InlineMatches(text, 1, 0), el)

RECURSIVE ScanInlineFrom(_, _, _, _)
ScanInlineFrom(doc, nodes, total, i) ==
    IF i > total THEN <<>>
    ELSE ScanElement(doc.els[nodes[i]], nodes[i], trim(doc.els[nodes[i]].text))
         \o ScanInlineFrom(doc, nodes, total, i + 1)

\* A scan of every node, whatever maxNodes is.
ScanAllNodes(doc, nodes, maxNodes) == ScanInlineFrom(doc, nodes, Len(nodes), 1)

ScanNodes(doc, nodes, maxNodes) ==
    ScanInlineFrom(doc, nodes, Min(Len(nodes), maxNodes), 1)

scanInline(doc, includeSelectors, maxNodes) ==
    ScanNodes(doc, querySelectorAll(doc, includeSelectors), maxNodes)

isAllowedDomain(hostname, cfg) ==
    IF hostname = "" THEN TRUE
    ELSE IF cfg.allowedDomains.isArray /\ Len(cfg.allowedDomains.items) > 0
         THEN \E i \in DOMAIN cfg.allowedDomains.items : cfg.allowedDomains.items[i] = hostname
    ELSE cfg.allowAllDomains

\* ------------------------------------------------------------------------
\* The hosting environment: locations and documents
\* ------------------------------------------------------------------------

\* An element: the simple selectors it matches, its href attribute (<<>>
\* when it has none) and its textContent.
Element(sel, href, text) == [sel |-> sel, href |-> href, text |-> text]

\* What the detector can find itself in: location.href and the document.
Pages ==
    LET WikiDoc ==
            [title |-> <<"T","e","s","t">>,
             els |-> << Element({"a[href]"}, <<"/","s","c","p","-","1","7","3">>,
                                <<"S","C","P","-","1","7","3">>),
                        Element({"a[href]"}, <<"/","s","c","p","-","1","7","3">>,
                                <<"P","e","a","n","u","t">>),
                        Element({"p"}, <<>>,
                                <<"s","e","e"," ","S","C","P","-","0","4","9","-","J","."," ",
                                  "s","c","p"," ","4","9","-","j">>) >>]

        MixedDoc ==
            [title |-> <<"S","C","P","-","4","9"," ","h","u","b">>,
             els |-> << Element({"a[href]"},
                                <<"https://example.com","/","x","#","a">>,
                                <<"s","c","p"," ","0","4","9">>),
                        Element({"a[href]"}, <<"/","t","a","l","e","#","b">>,
                                <<" ","S","C","P","u2013","u2588","u2588","u2588","u2588">>),
                        Element({"a[href]"}, <<BadOrigin>>, <<"S","C","P","-","7">>),
                        Element({"div", "[data-scp-detector-exclude]"}, <<>>,
                                <<"S","C","P","-","9","9","9">>),
                        Element({"li"}, <<>>,
                                <<"S","C","P","-","u2588","u2588","u2588","u2588","-","J">>) >>]
    IN  << [href |-> <<"https://scp-wiki.wikidot.com","/","t","e","s","t">>,
            doc |-> WikiDoc],
           [href |-> <<>>, doc |-> MixedDoc] >>

\* ------------------------------------------------------------------------
\* Bounds of the model
\* ------------------------------------------------------------------------

\* The clock (Date.now(), in units of the debounce delay's granularity).
MaxTime == 3
\* Update callbacks the host registers.
MaxSubs == 2
\* Compute cycles that can be nested through calls made by update callbacks.
MaxDepth == 2

\* cfg.debounceMs, in clock units.
DebounceMs == 2

Subs == 1..MaxSubs

\* ------------------------------------------------------------------------
\* Detector Controller
\* ------------------------------------------------------------------------

VARIABLES
    cfg,          \* the live configuration (createDetector's cfg)
    disposed,     \* the disposed flag
    observer,     \* TRUE while a MutationObserver is attached
    state,        \* DetectorState: page, entities, lastUpdatedAt
    listeners,    \* the emitter's 'update' Set, in insertion order
    timer,        \* the debounce timer t: pending, and when it is due
    initPending,  \* the microtask of the initial run is queued
    stack,        \* the emissions in progress, innermost last
    page,         \* index in Pages of the current location and document
    now,          \* the clock
    ev,           \* what the last step did (history)
    lastSeen,     \* per subscriber, lastUpdatedAt of the last payload it received
                  \* from the emissions in progress (history)
    tampered,     \* a caller wrote through a returned reference since the last state
                  \* replacement (history)
    input,        \* the text handed to the normalizer and the scanners on its own
    output        \* what was called on input, and what it returned

vars == <<cfg, disposed, observer, state, listeners, timer, initPending, stack,
          page, now, ev, lastSeen, tampered, input, output>>

\* allowedDomains: null, or an array of hostnames.
NullDomains == [isArray |-> FALSE, items |-> <<>>]
DomainList(items) == [isArray |-> TRUE, items |-> items]

MaxNodes == 5000

DEFAULT_CONFIG ==
    [includeSelectors |-> DEFAULT_INCLUDE_SELECTOR,
     excludeSelectors |-> DEFAULT_EXCLUDE_SELECTOR,
     domainMap |-> DEFAULT_DOMAIN_MAP,
     allowedDomains |-> NullDomains,
     maxNodes |-> MaxNodes,
     allowAllDomains |-> TRUE]

\* Object.assign(cfg, nextCfg)
Assign(target, source) ==
    [k \in DOMAIN target |-> IF k \in DOMAIN source THEN source[k] ELSE target[k]]

\* The option objects given to createDetector and to configure.
Options ==
    { [allowedDomains |-> NullDomains],
      [allowedDomains |-> DomainList(<<>>)],
      [allowedDomains |-> DomainList(<<"example.com">>)] }

InitialState ==
    [page |-> [type |-> "unknown", site |-> "unknown", locale |-> "unknown",
               canonicalUrl |-> <<>>, confidence |-> "0"],
     entities |-> <<>>,
     lastUpdatedAt |-> 0]

\* getResults(): a new page object and a new array over the same entity records.
getResults(st) == [page |-> st.page, entities |-> st.entities, lastUpdatedAt |-> st.lastUpdatedAt]

NoTimer == [pending |-> FALSE, due |-> 0]

\* A debounce that leaves a pending timer alone (no clearTimeout).
debouncedOnce(t, time) ==
    IF t.pending THEN t ELSE [pending |-> TRUE, due |-> time + DebounceMs]

\* debounce(fn, delay): each call clears the pending timer and sets a new one.
debounced(t, time) == [pending |-> TRUE, due |-> time + DebounceMs]

\* The record of a step (history): the event that ran (op), the API call
\* made in it (call), whether a compute cycle got past its disposed check
\* (ran), the fault it met, whether an exception left the operation (threw)
\* and, for a listener call, whether the payload was still what its cycle
\* wrote (intact) and no older than the last one this listener got (ordered);
\* for a call of scheduleCompute, when the timer it cleared was due (cleared,
\* -1 when none was pending); for a call of on or off, the callback given
\* (sub); for a call of configure, the options given (arg).
Quiet == [op |-> "none", call |-> "none", ran |-> FALSE, fault |-> "none",
          threw |-> FALSE, intact |-> TRUE, ordered |-> TRUE, cleared |-> -1,
          sub |-> 0, arg |-> [none |-> TRUE]]

Event(op) == [Quiet EXCEPT !.op = op]

\* No call on input yet: by names the function called, norm is what
\* normalizeIdentifier returned, found the entities a scan or dedupe returned,
\* nodes the number of elements with the text in the document scanned, page
\* what classifyPage returned and all what dedupeEntities made of found in
\* compute.
NotCalled == [by |-> "none", norm |-> Null, found |-> <<>>, nodes |-> 0,
              page |-> InitialState.page, all |-> <<>>]

Init ==
    /\ \E o \in Options : cfg = Assign(DEFAULT_CONFIG, o)
    /\ disposed = FALSE
    /\ observer \in BOOLEAN       \* cfg.observe, with a document body
    /\ initPending \in BOOLEAN    \* cfg.autostart !== false
    /\ state = InitialState
    /\ listeners = <<>>
    /\ timer = NoTimer
    /\ stack = <<>>
    /\ page \in DOMAIN Pages
    /\ now = 0
    /\ ev = Quiet
    /\ lastSeen = [s \in Subs |-> -1]
    /\ tampered = FALSE
    /\ input = <<>>
    /\ output = NotCalled

\* ---- compute ----

\* const urlObj = safeURL(base, base) || { hostname: '', pathname: '/', href: base }
OrFallback(u, base) ==
    IF u.ok THEN u ELSE [ok |-> FALSE, hostname |-> "", pathname |-> <<"/">>, href |-> base]
BaseURL(base) == OrFallback(safeURL(base, base), base)

\* The faults a cycle can meet: none, a document API call that throws, an
\* injected logger.debug that throws.
Faults == {"none", "doc", "logger"}

\* The hostname, the classification and the scans of each page of Pages,
\* computed once.
SelectorLists == {DEFAULT_INCLUDE_SELECTOR, {"p"}}
NodeCaps == {MaxNodes, 1}
HostOf == [pg \in DOMAIN Pages |-> BaseURL(Pages[pg].href).hostname]
PageOf == [pg \in DOMAIN Pages |->
              classifyPage(BaseURL(Pages[pg].href), Pages[pg].doc.title)]
LinksOf == [pg \in DOMAIN Pages |->
               scanLinks(Pages[pg].doc, BaseURL(Pages[pg].href).href)]
InlineOf == [pg \in DOMAIN Pages, inc \in SelectorLists, cap \in NodeCaps |->
                scanInline(Pages[pg].doc, inc, cap)]

\* The state compute has written when it leaves the try block, given the
\* fault met, the classification of the page and the deduplicated
\* candidates (all).  On the not-allowed path the three assignments come
\* before the logger call; on the allowed path they come after every call
\* that can throw.
Outcome(st, allowed, fault, pageClass, all, time) ==
    IF ~allowed
    THEN IF fault = "doc" THEN st
         ELSE [page |-> pageClass, entities |-> <<>>, lastUpdatedAt |-> time]
    ELSE IF fault # "none" THEN st
         ELSE [page |-> pageClass, entities |-> all, lastUpdatedAt |-> time]

\* A compute that writes nothing.
keepState(st, c, pg, time, fault) == st

\* (Hostnames of the model are lower case, as URL parsing leaves them.)
ComputedState(st, c, pg, time, fault) ==
    Outcome(st, isAllowedDomain(HostOf[pg], c), fault, PageOf[pg],
            dedupeEntities(LinksOf[pg] \o InlineOf[pg, c.includeSelectors, c.maxNodes]),
            time)

\* compute got as far as the assignments to state.
Wrote(allowed, fault) == fault = "none" \/ (~allowed /\ fault = "logger")

\* A frame of the stack: one emitter.emit('update', payload) in progress.
\* pos counts the entries of the Set already visited; removeAll leaves the
\* loop iterating the old Set (frozen, kept in set); installed is the state
\* this cycle wrote (history); live says the payload's entity records are
\* still the records of state.entities.
Frame(payload) ==
    [payload |-> payload, installed |-> payload, pos |-> 0, frozen |-> FALSE,
     set |-> <<>>, live |-> TRUE]

Unlive(stk) == [i \in DOMAIN stk |-> [stk[i] EXCEPT !.live = FALSE]]

\* compute without its first line.
computeUnguarded(isDisposed) == FALSE

\* if (disposed) return;
computeGuard(isDisposed) == isDisposed

\* The end of a cycle that left st as the state: emit pushes a frame when
\* the Set holds a listener; the catch block calls the error handler.
Finish(e, stk, st, fault, wrote, handlerThrows) ==
    /\ state' = st
    /\ tampered' = IF wrote THEN FALSE ELSE tampered
    /\ stack' = IF fault = "none" /\ listeners # <<>>
                THEN Append(Unlive(stk), Frame(getResults(st)))
                ELSE IF wrote THEN Unlive(stk) ELSE stk
    /\ ev' = [e EXCEPT !.ran = TRUE, !.fault = fault,
                 !.threw = fault # "none" /\ handlerThrows]

\* compute() with configuration c, entered with the emissions stk in
\* progress, up to the point where emit starts calling the listeners.
\* handlerThrows: the injected errorHandler.handleError throws.
compute(e, c, stk, fault, handlerThrows) ==
    IF computeGuard(disposed)
    THEN /\ UNCHANGED <<state, tampered>>
         /\ stack' = stk
         /\ ev' = e
    ELSE Finish(e, stk, ComputedState(state, c, page, now, fault), fault,
                Wrote(isAllowedDomain(HostOf[page], c), fault), handlerThrows)

\* ---- the public operations, called with the emissions stk in progress ----

\* refresh(): the logger call is guarded, then compute().
refresh(e, stk) ==
    /\ \E fault \in Faults, handlerThrows \in BOOLEAN :
           /\ fault # "none" \/ ~handlerThrows
           /\ compute([e EXCEPT !.call = "refresh"], cfg, stk, fault, handlerThrows)
    /\ UNCHANGED <<cfg, disposed, observer, listeners>>

\* configure(nextCfg), nextCfg one of options: Object.assign(cfg, nextCfg),
\* then refresh().
configureFrom(options, e, stk) ==
    /\ \E o \in options, fault \in Faults, handlerThrows \in BOOLEAN :
           /\ fault # "none" \/ ~handlerThrows
           /\ cfg' = Assign(cfg, o)
           /\ compute([e EXCEPT !.call = "configure", !.arg = o], cfg', stk, fault,
                      handlerThrows)
    /\ UNCHANGED <<disposed, observer, listeners>>

configure(e, stk) == configureFrom(Options, e, stk)

\* A removeAll that empties the Set under the loops that iterate it.
Cut(stk, set) ==
    [i \in DOMAIN stk |->
        IF stk[i].frozen THEN stk[i] ELSE [stk[i] EXCEPT !.frozen = TRUE, !.set = <<>>]]

\* Emitter.removeAll() replaces the listener table: a loop of emit that is
\* running keeps iterating the Set it started with.
Freeze(stk, set) ==
    [i \in DOMAIN stk |->
        IF stk[i].frozen THEN stk[i] ELSE [stk[i] EXCEPT !.frozen = TRUE, !.set = set]]

dispose(e, stk) ==
    /\ disposed' = TRUE
    /\ observer' = FALSE
    /\ listeners' = <<>>
    /\ stack' = Freeze(stk, listeners)
    /\ ev' = [e EXCEPT !.call = "dispose"]
    /\ UNCHANGED <<cfg, state, tampered>>

IndexIn(seq, x) == IF \E i \in DOMAIN seq : seq[i] = x
                   THEN CHOOSE i \in DOMAIN seq : seq[i] = x ELSE 0

Remove(seq, k) == SubSeq(seq, 1, k - 1) \o SubSeq(seq, k + 1, Len(seq))

\* on('update', cb): Set.add keeps the place of a callback already present.
on(e, stk) ==
    /\ \E s \in Subs :
           /\ listeners' = IF IndexIn(listeners, s) = 0 THEN Append(listeners, s)
                           ELSE listeners
           /\ ev' = [e EXCEPT !.call = "on", !.sub = s]
    /\ stack' = stk
    /\ UNCHANGED <<cfg, disposed, observer, state, tampered>>

\* off('update', cb), also the function on() returned: Set.delete; a loop of
\* emit over this Set goes on with the entries that remain.
off(e, stk) ==
    /\ \E s \in Subs :
          LET k == IndexIn(listeners, s) IN
           /\ listeners' = IF k = 0 THEN listeners ELSE Remove(listeners, k)
           /\ stack' = [i \in DOMAIN stk |->
                           IF k # 0 /\ ~stk[i].frozen /\ stk[i].pos >= k
                           THEN [stk[i] EXCEPT !.pos = @ - 1] ELSE stk[i]]
           /\ ev' = [e EXCEPT !.call = "off", !.sub = s]
    /\ UNCHANGED <<cfg, disposed, observer, state, tampered>>

\* What a caller can do to a value it was handed: reassign a field of the
\* page object (page.type = 'tampered'), empty the entities array
\* (entities.length = 0), or reassign a field of the first entity record in
\* it (entities[0].url = null).
TamperEntity(entities) ==
    IF entities # <<>> THEN [entities EXCEPT ![1].url = NullUrl] ELSE entities

\* The value after the caller's write.
Tamper(value, kind) ==
    CASE kind = "page" -> [value EXCEPT !.page.type = "tampered"]
      [] kind = "array" -> [value EXCEPT !.entities = <<>>]
      [] OTHER -> [value EXCEPT !.entities = TamperEntity(@)]

\* A caller takes getResults() (getPageClassification, getEntities) and writes
\* to what it got.  The page object and the array are copies; the entity
\* records are the records of state.entities, and of the payload of the
\* emission of the cycle that wrote them.
tamperResult(e, stk) ==
    /\ \E kind \in {"page", "array", "entity"} :
          LET shared == kind = "entity" IN
           /\ state' = IF shared THEN [state EXCEPT !.entities = TamperEntity(@)] ELSE state
           /\ stack' = [k \in DOMAIN stk |->
                           IF shared /\ stk[k].live
                           THEN [stk[k] EXCEPT !.payload.entities = TamperEntity(@)]
                           ELSE stk[k]]
           /\ tampered' = (tampered \/ (shared /\ state' # state))
           /\ ev' = [e EXCEPT !.call = "tamperResult"]
    /\ UNCHANGED <<cfg, disposed, observer, listeners>>

\* An update callback writes to the payload it was called with: the one
\* object handed to every listener of that emission (the innermost of stk).
\* An entity record of the payload is the record of state.entities while
\* the emission's cycle is the last that replaced the state.
tamperPayload(e, stk) ==
    LET top == stk[Len(stk)] IN
    /\ stk # <<>>
    /\ \E kind \in {"page", "entity"} :
          LET shared == kind = "entity" /\ top.live /\ top.payload.entities # <<>> IN
           /\ stack' = [stk EXCEPT ![Len(stk)].payload = Tamper(@, kind)]
           /\ state' = IF shared THEN [state EXCEPT !.entities = TamperEntity(@)]
                       ELSE state
           /\ tampered' = (tampered \/ (shared /\ state' # state))
           /\ ev' = [e EXCEPT !.call = "tamperPayload"]
    /\ UNCHANGED <<cfg, disposed, observer, listeners>>

\* ---- the host calling the detector ----

\* The record of the last step has been taken note of: the next can begin.
Ready == ev = Quiet

Idle == Ready /\ stack = <<>>

HostFrame == <<timer, initPending, page, now, lastSeen, input, output>>

Refresh == Idle /\ refresh(Event("host"), stack) /\ UNCHANGED HostFrame

Configure == Idle /\ configure(Event("host"), stack) /\ UNCHANGED HostFrame

Dispose == Idle /\ dispose(Event("host"), stack) /\ UNCHANGED HostFrame

On == Idle /\ on(Event("host"), stack) /\ UNCHANGED HostFrame

Off == Idle /\ off(Event("host"), stack) /\ UNCHANGED HostFrame

TamperResult == Idle /\ tamperResult(Event("host"), stack) /\ UNCHANGED HostFrame

\* ---- timers, microtasks and notifications ----

\* The clock advances; a pending timer that is due fires before it
\* advances further.
Tick ==
    /\ Ready
    /\ now < MaxTime
    /\ ~(timer.pending /\ now >= timer.due)
    /\ now' = now + 1
    /\ ev' = Quiet
    /\ UNCHANGED <<cfg, disposed, observer, state, listeners, timer, initPending, stack,
                   page, lastSeen, tampered, input, output>>

\* A scheduleCompute that arms no timer.
scheduleNothing == timer' = timer

\* scheduleCompute()
scheduleCompute == timer' = debounced(timer, now)

\* if (t) clearTimeout(t)
Cleared(t) == IF t.pending THEN t.due ELSE -1

\* The microtask queued by createDetector when autostart is not false.
InitialRun ==
    /\ Idle
    /\ initPending
    /\ initPending' = FALSE
    /\ scheduleCompute
    /\ ev' = [Event("microtask") EXCEPT !.cleared = Cleared(timer)]
    /\ UNCHANGED <<cfg, disposed, observer, state, listeners, stack, page, now,
                   lastSeen, tampered, input, output>>

\* The document or the location changes; an attached MutationObserver calls
\* scheduleCompute.
Mutate ==
    /\ Idle
    /\ \E p \in DOMAIN Pages : page' = p
    /\ IF observer THEN scheduleCompute ELSE UNCHANGED timer
    /\ ev' = [Event("mutation") EXCEPT !.cleared = IF observer THEN Cleared(timer) ELSE -1]
    /\ UNCHANGED <<cfg, disposed, observer, state, listeners, initPending, stack, now,
                   lastSeen, tampered, input, output>>

\* A timer that fires without running compute.
TimerDropped ==
    /\ Idle
    /\ ~initPending
    /\ timer.pending
    /\ now >= timer.due
    /\ timer' = NoTimer
    /\ ev' = Event("timer")
    /\ UNCHANGED <<cfg, disposed, observer, state, listeners, initPending, stack, page,
                   now, lastSeen, tampered, input, output>>

\* A timer that never fires.
TimerNeverFires == FALSE /\ UNCHANGED vars

\* The debounce timer fires: compute().
TimerFire ==
    /\ Idle
    /\ ~initPending
    /\ timer.pending
    /\ now >= timer.due
    /\ timer' = NoTimer
    /\ \E fault \in Faults, handlerThrows \in BOOLEAN :
           /\ fault # "none" \/ ~handlerThrows
           /\ compute(Event("timer"), cfg, stack, fault, handlerThrows)
    /\ UNCHANGED <<cfg, disposed, observer, listeners, initPending, page, now,
                   lastSeen, input, output>>

\* ---- emit ----

\* The Set the frame iterates.
SetOf(f) == IF f.frozen THEN f.set ELSE listeners

\* What an update callback does with the detector before it returns
\* (returning and throwing are the same to emit).  The callbacks of the
\* innermost emission the model allows start no further cycle: they
\* observe, unsubscribe or dispose.
CallsAt(n) ==
    IF n < MaxDepth
    THEN {"none", "refresh", "configure", "dispose", "on", "off",
          "tamperResult", "tamperPayload"}
    ELSE {"none", "dispose", "off"}

\* emit calls the next listener of the innermost emission with its payload.
Deliver ==
    /\ Ready
    /\ stack # <<>>
    /\ LET n == Len(stack)
           top == stack[n]
       IN
       /\ top.pos < Len(SetOf(top))
       /\ LET s == SetOf(top)[top.pos + 1]
              stk == [stack EXCEPT ![n].pos = @ + 1]
              e == [Event("deliver") EXCEPT
                       !.intact = (top.payload = top.installed),
                       !.ordered = (top.payload.lastUpdatedAt >= lastSeen[s])]
          IN
          /\ lastSeen' = [lastSeen EXCEPT ![s] = top.payload.lastUpdatedAt]
          /\ \E call \in CallsAt(n) :
                CASE call = "refresh" -> refresh(e, stk)
                  [] call = "configure" -> configure(e, stk)
                  [] call = "dispose" -> dispose(e, stk)
                  [] call = "on" -> on(e, stk)
                  [] call = "off" -> off(e, stk)
                  [] call = "tamperResult" -> tamperResult(e, stk)
                  [] call = "tamperPayload" -> tamperPayload(e, stk)
                  [] OTHER -> /\ stack' = stk
                              /\ ev' = e
                              /\ UNCHANGED <<cfg, disposed, observer, state, listeners,
                                             tampered>>
    /\ UNCHANGED <<timer, initPending, page, now, input, output>>

\* The loop of the innermost emit is over: emit, and the compute that called
\* it, return.
EmitReturn ==
    /\ Ready
    /\ stack # <<>>
    /\ stack[Len(stack)].pos >= Len(SetOf(stack[Len(stack)]))
    /\ stack' = SubSeq(stack, 1, Len(stack) - 1)
    /\ lastSeen' = IF Len(stack) = 1 THEN [s \in Subs |-> -1] ELSE lastSeen
    /\ ev' = Quiet
    /\ UNCHANGED <<cfg, disposed, observer, state, listeners, timer, initPending,
                   page, now, tampered, input, output>>

\* ev is history: the record of a step is dropped before the next step.
Settle ==
    /\ ~Ready
    /\ ev' = Quiet
    /\ UNCHANGED <<cfg, disposed, observer, state, listeners, timer, initPending, stack,
                   page, now, lastSeen, tampered, input, output>>

Next ==
    \/ Refresh
    \/ Configure
    \/ Dispose
    \/ On
    \/ Off
    \/ TamperResult
    \/ Tick
    \/ InitialRun
    \/ Mutate
    \/ TimerFire
    \/ Deliver
    \/ EmitReturn
    \/ Settle

Spec == Init /\ [][Next]_vars

\* ------------------------------------------------------------------------
\* The detector under every option of the configuration
\* ------------------------------------------------------------------------

\* The option objects given to createDetector and to configure: each sets
\* one option.  The domainMap names the wiki's hostname a mirror and has no
\* other entry.
WideOptions ==
    Options \cup
    { [includeSelectors |-> {"p"}],
      [excludeSelectors |-> {"li"}],
      [domainMap |-> [h \in {"scp-wiki.wikidot.com"} |->
                        [site |-> "mirror", locale |-> "fr"]]],
      [maxNodes |-> 1] }

\* createDetector({ observe: false, autostart: false, ...options }), as the
\* end-to-end tests construct it.
InitWide ==
    /\ \E o \in WideOptions : cfg = Assign(DEFAULT_CONFIG, o)
    /\ disposed = FALSE
    /\ observer = FALSE
    /\ initPending = FALSE
    /\ state = InitialState
    /\ listeners = <<>>
    /\ timer = NoTimer
    /\ stack = <<>>
    /\ page \in DOMAIN Pages
    /\ now = 0
    /\ ev = Quiet
    /\ lastSeen = [s \in Subs |-> -1]
    /\ tampered = FALSE
    /\ input = <<>>
    /\ output = NotCalled

ConfigureWide ==
    Idle /\ configureFrom(WideOptions, Event("host"), stack) /\ UNCHANGED HostFrame

NextWide ==
    \/ Refresh
    \/ ConfigureWide
    \/ Tick
    \/ Settle

SpecWide == InitWide /\ [][NextWide]_vars

\* ------------------------------------------------------------------------
\* The observing detector under mutation notifications, with fairness
\* ------------------------------------------------------------------------

\* createDetector({ observe: true, autostart: false }) with the update
\* callbacks the host registered at once.
InitLive ==
    /\ cfg = DEFAULT_CONFIG
    /\ disposed = FALSE
    /\ observer = TRUE
    /\ initPending = FALSE
    /\ state = InitialState
    /\ listeners \in {<<>>, <<1>>, <<1, 2>>}
    /\ timer = NoTimer
    /\ stack = <<>>
    /\ page \in DOMAIN Pages
    /\ now = 0
    /\ ev = Quiet
    /\ lastSeen = [s \in Subs |-> -1]
    /\ tampered = FALSE
    /\ input = <<>>
    /\ output = NotCalled

\* A mutation notification is one whose timer is due within the clock's
\* range.
NextLive ==
    \/ now + DebounceMs <= MaxTime /\ Mutate
    \/ Tick
    \/ TimerFire
    \/ Deliver
    \/ EmitReturn
    \/ Settle

\* The clock advances, a timer that is due fires, and the loop of emit and
\* the callbacks it calls return.
SpecLive ==
    /\ InitLive
    /\ [][NextLive]_vars
    /\ WF_vars(Tick)
    /\ WF_vars(TimerFire)
    /\ WF_vars(Deliver)
    /\ WF_vars(EmitReturn)
    /\ WF_vars(Settle)

\* ------------------------------------------------------------------------
\* The normalizer and the scanners on one text
\* ------------------------------------------------------------------------

RECURSIVE Repeat(_, _)
Repeat(text, k) == IF k = 0 THEN <<>> ELSE text \o Repeat(text, k - 1)

\* The texts: a prefix token or none, what separates it from the body, a
\* body, and what follows the body; and texts of many mentions, as many as
\* scanInline takes from one element, and one more.
Inputs ==
    LET Prefixes == {<<"S","C","P">>, <<"s","c","p">>, <<>>}
        Separators == {<<>>, <<"-">>, <<" ">>, <<"u2013">>, <<" ","-"," ">>}
        Bodies ==
            {<<"1">>, <<"0">>, <<"0","0","1">>, <<"0","4","9">>, <<"1","7","3">>,
             <<"1","2","3","4">>, <<"1","2","3","4","5">>, Blocks, <<>>}
        Tails ==
            {<<>>, <<"-","J">>, <<"-","j">>, <<"-","E","X">>, <<"-","A","R","C">>,
             <<"-","D">>, <<"-","1">>, <<"-","1","-","J">>, <<" ","-"," ","J">>,
             <<"-","J","2">>, <<" ","i","s"," ","h","e","r","e">>, <<"-">>, <<".">>,
             <<" ">>}
        LongTexts ==
            {Repeat(<<"S","C","P","-","1"," ">>, k) :
                k \in {MaxMatchesPerElement, MaxMatchesPerElement + 1}}
    IN  {p \o s \o b \o t : p \in Prefixes, s \in Separators, b \in Bodies, t \in Tails}
        \cup LongTexts

\* The elements with the text that a scanned document holds.
MaxCopies == 3

\* The detector's variables.
detector == <<cfg, disposed, observer, state, listeners, timer, initPending, stack,
              page, now, ev, lastSeen, tampered>>

\* A document of n paragraphs with the text, each after a section element
\* (which the include list does not name) with the same text.
ProseDocOf(text, n) ==
    [title |-> <<>>,
     els |-> [i \in 1..(2 * n) |->
                 IF i % 2 = 1 THEN Element({"section"}, <<>>, text)
                 ELSE Element({"p"}, <<>>, text)]]

\* A detector as constructed with observe: false and autostart: false, which
\* nothing calls.
Constructed ==
    /\ disposed = FALSE
    /\ observer = FALSE
    /\ initPending = FALSE
    /\ state = InitialState
    /\ listeners = <<>>
    /\ timer = NoTimer
    /\ stack = <<>>
    /\ page = 1
    /\ now = 0
    /\ ev = Quiet
    /\ lastSeen = [s \in Subs |-> -1]
    /\ tampered = FALSE

InitText ==
    /\ input \in Inputs
    /\ output = NotCalled
    /\ \E cap \in NodeCaps \cup {2} : cfg = Assign(DEFAULT_CONFIG, [maxNodes |-> cap])
    /\ Constructed

\* normalizeIdentifier(input)
Normalize ==
    /\ output.by = "none"
    /\ output' = [NotCalled EXCEPT !.by = "normalizeIdentifier",
                                   !.norm = normalizeIdentifier(input)]
    /\ UNCHANGED <<input, detector>>

\* scanLinks over a document of one hyperlink whose path names no
\* identifier, with the text
ScanLinkText ==
    /\ output.by = "none"
    /\ LET LinkDoc ==
               [title |-> <<>>,
                els |-> << Element({"a[href]"}, <<"/","t","a","l","e">>, input) >>]
       IN  output' = [NotCalled EXCEPT !.by = "scanLinks",
                                       !.found = scanLinks(LinkDoc, Pages[page].href)]
    /\ UNCHANGED <<input, detector>>

\* scanInline over paragraphs with the text
ScanInlineText ==
    /\ output.by = "none"
    /\ \E n \in 1..MaxCopies :
           output' = [NotCalled EXCEPT !.by = "scanInline",
                                       !.nodes = n,
                                       !.found = scanInline(ProseDocOf(input, n),
                                                            cfg.includeSelectors,
                                                            cfg.maxNodes)]
    /\ UNCHANGED <<input, detector>>

NextText ==
    \/ Normalize
    \/ ScanLinkText
    \/ ScanInlineText

SpecText == InitText /\ [][NextText]_vars

\* ------------------------------------------------------------------------
\* The deduplicator on one candidate list
\* ------------------------------------------------------------------------

\* The candidates of a list: two ids, a url or none, and the confidence and
\* context a scan gives, a low-confidence link included.
MaxCandidates == 3

\* The list made of the choices c: the candidate at position i is of element
\* i, with a text of its own.
InitDedupe ==
    /\ input \in
            LET CandidateIds == {<<"s","c","p","-","1","7","3">>, <<"s","c","p","-","4","9">>}
                CandidateUrls ==
                    {<<>>, <<"https://scp-wiki.wikidot.com","/","s","c","p","-","1","7","3">>}
                CandidateMarks ==
                    {<<"high", "link">>, <<"medium", "link">>, <<"low", "link">>,
                     <<"low", "inline">>}
                CandidatePool == CandidateIds \X CandidateUrls \X CandidateMarks
                CandidateList(c) ==
                    [i \in DOMAIN c |->
                        makeEntity(c[i][1], "scp", c[i][3][2], c[i][2],
                                   <<"t","e","x","t">> \o Repeat(<<"x">>, i), i, c[i][3][1])]
            IN  UNION {{CandidateList(c) : c \in [1..n -> CandidatePool]} :
                          n \in 1..MaxCandidates}
    /\ output = NotCalled
    /\ cfg = DEFAULT_CONFIG
    /\ Constructed

\* dedupeEntities(input)
Dedupe ==
    /\ output.by = "none"
    /\ output' = [NotCalled EXCEPT !.by = "dedupeEntities",
                                   !.found = dedupeEntities(input)]
    /\ UNCHANGED <<input, detector>>

SpecDedupe == InitDedupe /\ [][Dedupe]_vars

\* ------------------------------------------------------------------------
\* The classifier on one location and title
\* ------------------------------------------------------------------------

\* The locations (an origin and a path) and document titles classified.
InitClassify ==
    /\ input \in
            [origin : {"https://scp-wiki.wikidot.com", "https://example.com"},
             pathname : {<<"/">>, <<"/","x">>, <<"/","1","7","3">>,
                         <<"/","s","c","p","-","0","0","1">>, <<"/","S","C","P","0","0","1">>,
                         <<"/","s","c","p","-","0","0","1","1">>,
                         <<"/","s","c","p","-","1","7","3">>,
                         <<"/","s","c","p","-","s","e","r","i","e","s">>,
                         <<"/","s","e","r","i","e","s","2">>,
                         <<"/","h","u","b">>, <<"/","t","h","e","-","h","u","b","s">>,
                         <<"/","t","a","l","e">>, <<"/","t","a","l","e","s">>},
             title : {<<>>, <<"T","e","s","t">>, <<"S","C","P","-","1","7","3">>,
                      <<"S","C","P","-","1","2","3","4","5">>,
                      <<"S","e","r","i","e","s"," ","I","V">>, <<"S","e","r","i","e","s">>,
                      <<"H","u","b","s">>, <<"A"," ","T","a","l","e">>}]
    /\ output = NotCalled
    /\ cfg = DEFAULT_CONFIG
    /\ Constructed

\* classifyPage(new URL(location), title)
Classify ==
    /\ output.by = "none"
    /\ output' = [NotCalled EXCEPT
                     !.by = "classifyPage",
                     !.page = classifyPage(MakeURL(input.origin, input.pathname),
                                           input.title)]
    /\ UNCHANGED <<input, detector>>

SpecClassify == InitClassify /\ [][Classify]_vars

\* ------------------------------------------------------------------------
\* The scans and the deduplicator of compute on one document
\* ------------------------------------------------------------------------

\* The elements of a document: links (to a numbered article, with and
\* without a fragment, on the wiki and elsewhere, and to a page with no
\* number) with four texts, and two paragraphs.
MaxElements == 3
InitScan ==
    /\ input \in
            LET ElementPool ==
                    {Element({"a[href]"}, h, t) :
                        h \in {<<"/","s","c","p","-","1","7","3">>,
                               <<"/","s","c","p","-","1","7","3","#","a">>,
                               <<"/","t","a","l","e">>,
                               <<"https://example.com","/","s","c","p","-","1","7","3">>},
                        t \in {<<"S","C","P","-","1","7","3">>, <<"s","c","p"," ","1","7","3">>,
                               <<"s","c","p"," ","0","4","9">>, <<"P","e","a","n","u","t">>}}
                    \cup {Element({"p"}, <<>>, t) :
                             t \in {<<"S","C","P","-","1","7","3"," ","s","c","p","-","1","7","3">>,
                                    <<"S","C","P","-","0","4","9"," ","S","C","P","-","1","7","3">>}}
            IN  UNION {{[title |-> <<>>, els |-> els] : els \in [1..n -> ElementPool]} :
                          n \in 1..MaxElements}
    /\ output = NotCalled
    /\ cfg = DEFAULT_CONFIG
    /\ Constructed

\* The scans of compute and its dedupeEntities, on the document at the
\* location of the wiki.
Scan ==
    /\ output.by = "none"
    /\ LET found == scanLinks(input, BaseURL(Pages[page].href).href)
                    \o scanInline(input, cfg.includeSelectors, cfg.maxNodes)
       IN  output' = [NotCalled EXCEPT !.by = "compute", !.found = found,
                                       !.all = dedupeEntities(found)]
    /\ UNCHANGED <<input, detector>>

SpecScan == InitScan /\ [][Scan]_vars

\* ------------------------------------------------------------------------
\* Properties
\* ------------------------------------------------------------------------

InList(x, items) == \E i \in DOMAIN items : items[i] = x

\* C1: a compute cycle in which a step raises a fault (a failing document
\* call, a throwing logger call), on the allowed and on the not-allowed path
\* alike, leaves page, entities and lastUpdatedAt as they were before it.
C1_FaultLeavesState == [][(ev'.ran /\ ev'.fault # "none") => state' = state]_vars

\* C2: after a compute cycle that met no fault, run while allowedDomains is
\* an array that does not hold the current hostname (the empty array and the
\* empty hostname included), entities is empty and page is the
\* classification of the current page.
C2_NotListedIsEmpty ==
    (/\ ev.ran /\ ev.fault = "none"
     /\ cfg.allowedDomains.isArray
     /\ ~InList(HostOf[page], cfg.allowedDomains.items))
    => (state.entities = <<>> /\ state.page = PageOf[page])

Tampering == {"tamperResult", "tamperPayload"}

\* C3: once disposed, the detector stays disposed; no step after it (a timer
\* firing, the deferred initial run, a mutation notification, refresh(),
\* configure(), a further dispose()) gets a compute past its first line,
\* starts an emission, or changes page, entities or lastUpdatedAt, the
\* writes of a caller through a reference it holds aside; a callback called
\* after it is called by an emission that was in progress when dispose() was
\* called; a further dispose() leaves the detector disposed, unobserved and
\* without listeners.
C3_DisposedIsTerminal ==
    [][disposed =>
          /\ disposed'
          /\ ~ev'.ran
          /\ Len(stack') <= Len(stack)
          /\ (ev'.op = "deliver" => stack[Len(stack)].frozen)
          /\ (ev'.call \notin Tampering => state' = state)
          /\ (ev'.call = "dispose" => ~observer' /\ listeners' = <<>>)]_vars

\* A timer armed before dispose() fires on a disposed detector that had
\* computed a state.
C3_TimerAfterDispose ==
    disposed /\ ev.op = "timer" /\ ~ev.ran /\ state # InitialState

\* C4: every scheduleCompute trigger (the initial run, a mutation
\* notification of an attached observer) leaves one timer pending, due
\* DebounceMs after the trigger, whatever was pending before; the timer's
\* compute runs only when that delay has elapsed and leaves no timer
\* pending; nothing else changes the timer.  So a burst of triggers less
\* than DebounceMs apart ends in one timer compute, DebounceMs after the
\* last trigger and none before.
C4_TrailingEdgeDebounce ==
    [][/\ (ev'.op = "microtask" \/ (ev'.op = "mutation" /\ observer))
          => timer' = [pending |-> TRUE, due |-> now + DebounceMs]
       /\ ev'.op = "timer"
          => timer.pending /\ now = timer.due /\ timer' = NoTimer
       /\ timer' # timer
          => (ev'.op \in {"microtask", "mutation", "timer"})]_vars

\* A trigger of a burst arrives while the timer of an earlier trigger is
\* pending and not yet due, and moves the compute to a later time.
C4_BurstRestartsTimer ==
    /\ ev.op = "mutation"
    /\ ev.cleared > now
    /\ timer.pending
    /\ timer.due > ev.cleared

\* C5: the lastUpdatedAt values of the payloads delivered to one subscriber
\* never decrease.
C5_PayloadsInOrder == ev.op = "deliver" => ev.ordered

\* C6: no compute cycle gets past its first line while the emission of
\* another cycle is in progress.
C6_OneCycleAtATime == [][ev'.ran => stack = <<>>]_vars

\* C7: no operation and no timer callback lets an exception escape.
C7_NothingEscapes == ~ev.threw

\* C8: a write of a caller to a value an accessor returned leaves page,
\* entities and lastUpdatedAt as they were.
C8_AccessorsDetached == [][ev'.call = "tamperResult" => state' = state]_vars

\* C9: every listener of an emission is called with a payload equal to the
\* state the emission's cycle installed, and a write to a payload leaves
\* the controller state as it was.
C9_PayloadImmutable ==
    [][/\ ev'.op = "deliver" => ev'.intact
       /\ ev'.call = "tamperPayload" => state' = state]_vars

\* The (id, url) pairs of a list of entities are all different.
UniqueKeys(entities) ==
    \A i, j \in DOMAIN entities :
        i # j => <<entities[i].id, entities[i].url>> # <<entities[j].id, entities[j].url>>

\* C10: in every state reached by computes, entities holds at most one
\* entry for each (id, url) pair (a null url is one url value).
C10_OneEntryPerKey == ~tampered => UniqueKeys(state.entities)

\* A cycle installed fewer entities than the scans produced candidates.
C10_DuplicatesDropped ==
    /\ ev.ran /\ ev.fault = "none"
    /\ state.entities # <<>>
    /\ Len(state.entities)
          < Len(LinksOf[page]) + Len(InlineOf[page, cfg.includeSelectors, cfg.maxNodes])

\* The canonical form of an id: scp-unknown, or scp- followed by decimal
\* digits and zero or more segments of a hyphen and lower-case letters or
\* digits.
Canonical(id) ==
    \/ id = <<"s","c","p","-","u","n","k","n","o","w","n">>
    \/ /\ HasAt(id, 1, <<"s","c","p","-">>)
       /\ RunLen(id, 5, Digit) >= 1
       /\ LET ends == SuffixEnds(id, 4 + RunLen(id, 5, Digit), Lower \cup Digit)
          IN  ends[Len(ends)] = Len(id)

\* C11: every entity id of the state is canonical, whether it comes from a
\* link path, a link text or inline text, a redacted number written with a
\* suffix included.
C11_IdsCanonical ==
    \A i \in DOMAIN state.entities : Canonical(state.entities[i].id)

Computing == {"refresh", "configure"}

\* C12: createDetector returns with the empty initial state, no compute run
\* and no emission started.  The microtask of the initial run computes
\* nothing itself: it runs once, before any timer, and arms the debounce
\* timer; a compute runs only for that timer or for a call of refresh() or
\* configure().  With no observer attached, no microtask queued and no
\* timer pending (autostart = false, observe = false) it stays so, and a
\* compute runs only for refresh() or configure().
C12_InitialRunDeferred ==
    /\ state = InitialState /\ stack = <<>> /\ ~ev.ran
    /\ [][/\ ev'.op = "microtask"
             => (initPending /\ ~ev'.ran /\ state' = state /\ stack' = stack
                 /\ timer' = [pending |-> TRUE, due |-> now + DebounceMs])
          /\ ~initPending => ~initPending'
          /\ ev'.op = "timer" => ~initPending
          /\ ev'.ran => (ev'.op = "timer" \/ ev'.call \in Computing)
          /\ (~observer /\ ~initPending /\ ~timer.pending)
             => (~observer' /\ ~initPending' /\ ~timer'.pending
                 /\ (~ev'.ran \/ ev'.call \in Computing))]_vars

\* The timer of the initial run (observe = false: nothing else arms one)
\* computes and emits to a subscriber attached after construction.
C12_FirstUpdateReceived ==
    /\ ev.op = "timer" /\ ev.ran /\ ev.fault = "none"
    /\ ~observer /\ ~disposed
    /\ stack # <<>>

\* C13: a call of refresh() on a detector that is not disposed, in which
\* nothing throws, computes in the same step, whatever the debounce timer
\* holds and without touching it: the state is replaced by the
\* classification of the current page stamped with the current time, and
\* an emission of that state over the registered listeners is started;
\* when an emission returns, every listener of its Set has been handed a
\* payload at least as new as its own.
C13_RefreshIsSynchronous ==
    [][/\ (ev'.call = "refresh" /\ ~disposed /\ ev'.fault = "none")
          => (/\ ev'.ran
              /\ state'.page = PageOf[page]
              /\ state'.lastUpdatedAt = now
              /\ timer' = timer
              /\ listeners # <<>>
                 => (/\ stack' # <<>>
                     /\ stack'[Len(stack')].payload = getResults(state')
                     /\ stack'[Len(stack')].pos = 0
                     /\ ~stack'[Len(stack')].frozen
                     /\ listeners' = listeners))
       /\ Len(stack') < Len(stack)
          => \A i \in DOMAIN SetOf(stack[Len(stack)]) :
                 lastSeen[SetOf(stack[Len(stack)])[i]]
                     >= stack[Len(stack)].payload.lastUpdatedAt]_vars

\* refresh() computes and starts an emission to two listeners while a
\* debounce timer is pending and not yet due.
C13_RefreshBeforeTimer ==
    /\ ev.call = "refresh" /\ ev.ran /\ ev.fault = "none"
    /\ timer.pending /\ timer.due > now
    /\ Len(listeners) = 2
    /\ stack # <<>>

\* The (id, url) keys of a list of entities.
KeysOf(entities) == {<<entities[i].id, entities[i].url>> : i \in DOMAIN entities}

\* The state is what a compute on the present document and configuration
\* wrote.
Fresh == state = ComputedState(state, cfg, page, state.lastUpdatedAt, "none")

\* C14: a refresh() that follows a compute on the same document and
\* configuration leaves the set of (id, url) keys as it was and makes
\* lastUpdatedAt strictly greater.
C14_RefreshTwice ==
    [][(ev'.call = "refresh" /\ ev'.ran /\ ev'.fault = "none" /\ Fresh)
          => (/\ KeysOf(state'.entities) = KeysOf(state.entities)
              /\ state'.lastUpdatedAt > state.lastUpdatedAt)]_vars

\* What the configuration promises: the element as the scans see it when
\* the list ex is the exclude list consulted (the scans consult the
\* built-in list).
ElementUnder(el, ex) ==
    [el EXCEPT !.sel = (@ \ DEFAULT_EXCLUDE_SELECTOR)
                       \cup (IF @ \cap ex # {} THEN {"script"} ELSE {})]

DocUnder(doc, ex) == [doc EXCEPT !.els = [i \in DOMAIN @ |-> ElementUnder(@[i], ex)]]

ExcludeLists == {DEFAULT_EXCLUDE_SELECTOR, {"li"}}

\* The candidates of both scans of page pg when the exclude list ex, the
\* include list inc and the cap on the nodes are the ones consulted.
CandidatesUnder ==
    [pg \in DOMAIN Pages, ex \in ExcludeLists, inc \in SelectorLists, cap \in NodeCaps |->
        scanLinks(DocUnder(Pages[pg].doc, ex), BaseURL(Pages[pg].href).href)
        \o scanInline(DocUnder(Pages[pg].doc, ex), inc, cap)]

\* The entities of a compute on page pg that reads every option from
\* configuration c.
EntitiesUnder(c, pg) ==
    IF isAllowedDomain(HostOf[pg], c)
    THEN dedupeEntities(CandidatesUnder[pg, c.excludeSelectors, c.includeSelectors,
                                        c.maxNodes])
    ELSE <<>>

\* site and locale of hostname by the map domainMap.
SiteUnder(domainMap, hostname) ==
    IF hostname \in DOMAIN domainMap THEN domainMap[hostname].site ELSE "unknown"
LocaleUnder(domainMap, hostname) ==
    IF hostname \in DOMAIN domainMap THEN domainMap[hostname].locale ELSE "unknown"

\* C15: configure(partial) sets the options partial names, leaves the
\* others as they were and computes in the same step; nothing else changes
\* the configuration; every compute that completes, that of configure and
\* every later one, installs what the live configuration gives: the
\* entities by its allowedDomains, includeSelectors, excludeSelectors and
\* maxNodes, the site by its domainMap, stamped with the time.
C15_ConfigureMerges ==
    [][/\ ev'.call = "configure"
          => (/\ DOMAIN cfg' = DOMAIN cfg
              /\ \A k \in DOMAIN cfg :
                     cfg'[k] = IF k \in DOMAIN ev'.arg THEN ev'.arg[k] ELSE cfg[k]
              /\ disposed \/ ev'.ran)
       /\ ev'.call # "configure" => cfg' = cfg
       /\ (ev'.ran /\ ev'.fault = "none")
          => (/\ state'.entities = EntitiesUnder(cfg', page)
              /\ state'.page.site = SiteUnder(cfg'.domainMap, HostOf[page])
              /\ state'.lastUpdatedAt = now)]_vars

\* C17: after a compute, site and locale of the page are those of the
\* entry of the configured domainMap for the current hostname, and unknown
\* when the map has no entry for it.
C17_ConfiguredDomainMap ==
    (ev.ran /\ ev.fault = "none")
    => (/\ state.page.site = SiteUnder(cfg.domainMap, HostOf[page])
        /\ state.page.locale = LocaleUnder(cfg.domainMap, HostOf[page]))

\* C18: after a compute on an allowed page, the entities are those of the
\* candidates of the elements that do not match the configured
\* excludeSelectors, in the link scan and in the inline scan: an element of
\* a custom list yields none, an element of the built-in list only is
\* scanned.
C18_ConfiguredExcludeList ==
    (ev.ran /\ ev.fault = "none" /\ isAllowedDomain(HostOf[page], cfg))
    => state.entities
          = dedupeEntities(CandidatesUnder[page, cfg.excludeSelectors,
                                           cfg.includeSelectors, cfg.maxNodes])

\* The callbacks the loop of the emission f has still to call, ls being the
\* registered listeners.
Ahead(f, ls) ==
    LET set == IF f.frozen THEN f.set ELSE ls
    IN  {set[k] : k \in (f.pos + 1)..Len(set)}

\* C16: after off(event, cb), or the function on(event, cb) returned, cb is
\* not registered and no emission in progress has it still to call, so it
\* receives no further update; the other callbacks stay registered, in
\* their order, and every emission in progress has the same other
\* callbacks still to call; the call changes nothing else, and nothing at
\* all when cb was not registered.
C16_UnsubscribeStopsDelivery ==
    [][ev'.call = "off"
          => LET n == Len(stack)
                 called == IF ev'.op = "deliver"
                           THEN {SetOf(stack[n])[stack[n].pos + 1]} ELSE {}
             IN  /\ listeners' = SelectSeq(listeners, LAMBDA x : x # ev'.sub)
                 /\ Len(stack') = n
                 /\ \A i \in 1..n :
                        Ahead(stack'[i], listeners')
                           = (Ahead(stack[i], listeners)
                                 \ (IF i = n THEN called ELSE {})) \ {ev'.sub}
                 /\ UNCHANGED <<cfg, disposed, observer, state, timer>>]_vars

\* The text as the normalizer matches it: trimmed, its dashes unified and the
\* white space around its hyphens collapsed.
Prepared(text) == CollapseHyphenSpaces(unifyDashes(trim(text)))

\* The identifier grammar on a prepared text s: the prefix token in either
\* case, an optional hyphen or space, a body of 1 to 4 digits or the
\* redaction token, then zero or more hyphenated alphanumeric segments, and
\* nothing else.  GrammarBodyEnd is the last index of the body, or 0.
GrammarBodyEnd(s) ==
    LET b == BodyStart(s)
        nd == RunLen(s, b, Digit)
    IN  IF nd >= 1 /\ nd <= 4 THEN b + nd - 1
        ELSE IF nd = 0 /\ HasAt(s, b, Blocks) THEN b + 3
        ELSE 0

GrammarEnds(s) == SuffixEnds(s, GrammarBodyEnd(s), Alnum)

MatchesGrammar(s) ==
    /\ HasAt(toLowerCase(s), 1, ScpPrefix)
    /\ GrammarBodyEnd(s) > 0
    /\ GrammarEnds(s)[Len(GrammarEnds(s))] = Len(s)

GrammarBody(s) == SubSeq(s, BodyStart(s), GrammarBodyEnd(s))

GrammarSuffixes(s) ==
    {toLowerCase(SubSeq(s, GrammarEnds(s)[k] + 2, GrammarEnds(s)[k + 1])) :
        k \in 1..(Len(GrammarEnds(s)) - 1)}

ExpectedKind(s) ==
    IF GrammarSuffixes(s) \cap ClassTags # {} THEN "scp_variant"
    ELSE IF GrammarBody(s) = <<"0","0","1">> THEN "proposal_or_article"
    ELSE "scp"

\* C19: for a text that matches the grammar, normalize gives kind
\* scp_variant when a suffix segment is one of the class tags, otherwise
\* proposal_or_article when the numeric body is 001, otherwise scp.
C19_KindBySuffixAndBody ==
    (output.by = "normalizeIdentifier" /\ MatchesGrammar(Prepared(input)))
        => output.norm.kind = ExpectedKind(Prepared(input))

\* An identifier stands in text at q..e as a whole token: no letter or digit
\* touches it on either side.
TokenAt(text, q, e) ==
    /\ At(text, q - 1) \notin Alnum
    /\ At(text, e + 1) \notin Alnum
    /\ MatchesGrammar(Prepared(SubSeq(text, q, e)))

HasToken(text) == \E q \in 1..Len(text) : \E e \in q..Len(text) : TokenAt(text, q, e)

\* C20: normalize returns null for a text that does not match the grammar;
\* a link whose text does not match it gives no candidate, and inline
\* scanning gives no candidate for a text in which no identifier stands as a
\* whole token.
C20_NoMatchIsNull ==
    /\ (output.by = "normalizeIdentifier" /\ ~MatchesGrammar(Prepared(input)))
          => output.norm = Null
    /\ (output.by = "scanLinks" /\ ~MatchesGrammar(Prepared(input)))
          => output.found = <<>>
    /\ (output.by = "scanInline" /\ ~HasToken(input))
          => output.found = <<>>

\* The rank of element el among the elements of doc that match the selector
\* list, in document order.
RankOf(doc, el, selectors) ==
    Cardinality({i \in 1..el : doc.els[i].sel \cap selectors # {}})

FoundAt(found, el) == {i \in DOMAIN found : found[i].element = el}

\* C21: an inline scan of a document with N elements of the include list
\* gives at most 20 * min(N, maxNodes) candidates, at most 20 of one element,
\* in document order, each of an element of the include list that is among
\* the first maxNodes of them.
C21_InlineScanBounded ==
    output.by = "scanInline"
        => LET doc == ProseDocOf(input, output.nodes)
               found == output.found
           IN  /\ Len(found) <= MaxMatchesPerElement * Min(output.nodes, cfg.maxNodes)
               /\ \A i \in DOMAIN found :
                     /\ found[i].context = "inline"
                     /\ doc.els[found[i].element].sel \cap cfg.includeSelectors # {}
                     /\ RankOf(doc, found[i].element, cfg.includeSelectors) <= cfg.maxNodes
                     /\ i > 1 => found[i - 1].element <= found[i].element
               /\ \A el \in DOMAIN doc.els :
                     Cardinality(FoundAt(found, el)) <= MaxMatchesPerElement

\* Both caps at work: more elements than maxNodes, each with more mentions
\* than are taken from one element.
C21_BothCapsReached ==
    /\ output.by = "scanInline"
    /\ output.nodes > cfg.maxNodes
    /\ Len(input) > 6 * MaxMatchesPerElement
    /\ Len(output.found) = MaxMatchesPerElement * cfg.maxNodes

\* The key of a candidate, and the score: the tier of its confidence, plus
\* one for link context.
KeyOf(e) == <<e.id, e.url>>
Tier(e) == CASE e.confidence = "high" -> 3
             [] e.confidence = "medium" -> 2
             [] e.confidence = "low" -> 1
             [] OTHER -> 0
ScoreOf(e) == Tier(e) + (IF e.context = "link" THEN 1 ELSE 0)

\* The position in list of the candidate to keep for the key of list[i]: the
\* earliest of those of that key with the greatest score.
Group(list, k) == {i \in DOMAIN list : KeyOf(list[i]) = k}
Best(list, k) ==
    CHOOSE i \in Group(list, k) :
        \A j \in Group(list, k) :
            \/ ScoreOf(list[j]) < ScoreOf(list[i])
            \/ (ScoreOf(list[j]) = ScoreOf(list[i]) /\ i <= j)

\* C22: dedupe gives exactly one entity for each key (id, url) of its input:
\* the earliest candidate of that key with the greatest score; every entity
\* it gives is one of the candidates.  Two links of one key with different
\* texts give one entity of confidence high.
C22_BestOfEachKey ==
    output.by = "dedupeEntities"
        => LET out == output.found IN
           /\ \A i \in DOMAIN input :
                 \E j \in DOMAIN out :
                     /\ out[j] = input[Best(input, KeyOf(input[i]))]
                     /\ \A k \in DOMAIN out : KeyOf(out[k]) = KeyOf(out[j]) => k = j
           /\ \A j \in DOMAIN out : \E i \in DOMAIN input : out[j] = input[i]
           /\ (/\ Len(input) = 2
               /\ KeyOf(input[1]) = KeyOf(input[2])
               /\ \A i \in 1..2 : input[i].confidence = "high" /\ input[i].context = "link")
              => (Len(out) = 1 /\ out[1].confidence = "high")

\* A later candidate took the place of an earlier one of its key, and a
\* still later one of the same score did not.
C22_LaterBetterKept ==
    /\ output.by = "dedupeEntities"
    /\ Len(input) = 3
    /\ Len(output.found) = 1
    /\ output.found[1] = input[2]
    /\ ScoreOf(input[3]) = ScoreOf(input[2])

\* The rules of the classifier in their order, for a lowercased path p and
\* title t on a site: whether each applies, and the pair it gives.
Rules(p, t, site) ==
    << <<IsSCP001(p), <<"proposal_or_index", "0.6">> >>,
       <<IsSCPPath(p), <<"scp_article", "0.9">> >>,
       <<TitleHasScpNumber(t), <<"scp_article", "0.6">> >>,
       <<HasWord(p, <<"s","e","r","i","e","s">>) \/ TitleHasSeries(t), <<"series", "0.6">> >>,
       <<HasWord(p, <<"h","u","b">>) \/ Contains(t, <<"h","u","b">>), <<"hub", "0.5">> >>,
       <<HasWord(p, <<"t","a","l","e">>) \/ Contains(t, <<"t","a","l","e">>), <<"tale", "0.4">> >>,
       <<site = "scp-wiki", <<"non_scp", "0.3">> >>,
       <<TRUE, <<"unknown", "0.1">> >> >>

FirstMatch(rules) ==
    rules[CHOOSE i \in DOMAIN rules :
              rules[i][1] /\ \A j \in 1..(i - 1) : ~rules[j][1]][2]

InputRules ==
    Rules(toLowerCase(input.pathname), toLowerCase(input.title),
          SiteOf(OriginHost[input.origin]))

\* C23: classify gives the pair (type, confidence) of the first rule that
\* applies, in the order proposal/index path, numbered article in the path,
\* numbered article in the title, series, hub, tale, known wiki, anything
\* else; the pair is one of the eight of these rules.
C23_FirstRuleWins ==
    output.by = "classifyPage"
        => /\ <<output.page.type, output.page.confidence>> = FirstMatch(InputRules)
           /\ \E i \in DOMAIN InputRules :
                  <<output.page.type, output.page.confidence>> = InputRules[i][2]

\* A title that names a numbered article on a hub path of the wiki: the
\* article rule wins over the hub rule and the known-wiki rule.
C23_TitleArticleOnHubPath ==
    /\ output.by = "classifyPage"
    /\ InputRules[3][1] /\ InputRules[5][1] /\ InputRules[7][1]
    /\ ~InputRules[1][1] /\ ~InputRules[2][1]
    /\ output.page.type = "scp_article"
    /\ output.page.confidence = "0.6"

\* context, url and confidence of an entity go together.
Consistent(e) ==
    /\ e.context \in {"link", "inline"}
    /\ (e.context = "link") = (e.url # NullUrl)
    /\ (e.context = "link") = (e.confidence \in {"high", "medium"})
    /\ (e.context = "inline") = (e.confidence = "low")

\* The id that the path of the resolved href of link a encodes, or <<>>.
PathIdOf(a, baseHref) ==
    IF safeURL(a.href, baseHref).ok
    THEN PathId(unifyDashes(toLowerCase(safeURL(a.href, baseHref).pathname)))
    ELSE <<>>

\* A link entity e of the document doc is high when its id is the one of the
\* path of its link, medium when the path has none and the id is the one of
\* the link's text.
Derived(e, doc, baseHref) ==
    LET a == doc.els[e.element]
        pathId == PathIdOf(a, baseHref)
    IN  /\ (e.confidence = "high")
              = (pathId # <<>> /\ e.id = <<"s","c","p","-">> \o pathId)
        /\ (e.confidence = "medium")
              = (pathId = <<>>
                 /\ e.id = normalizeIdentifier(toUpperCase(trim(a.text))).id)

\* C24: in every state of a detector, every entity is a link entity with a
\* url and confidence high or medium, or an inline entity with no url and
\* confidence low; the link entities a compute installs are high exactly
\* when the id is the one of the path of the resolved url, medium exactly
\* when that path has no id and the id is the one of the link's text.
C24_ContextUrlConfidence ==
    [][/\ \A i \in DOMAIN state'.entities : Consistent(state'.entities[i])
       /\ (ev'.ran /\ ev'.fault = "none")
             => \A i \in DOMAIN state'.entities :
                    state'.entities[i].context = "link"
                       => Derived(state'.entities[i], Pages[page].doc,
                                  BaseURL(Pages[page].href).href)]_vars

\* The id of a prepared text s that matches the grammar: the body without
\* its leading zeros, or unknown, and then every suffix segment in lower
\* case.
ExpectedId(s) ==
    <<"s","c","p","-">>
    \o (IF GrammarBody(s) = Blocks THEN <<"u","n","k","n","o","w","n">>
        ELSE StripLeadingZeros(GrammarBody(s)))
    \o toLowerCase(SubSeq(s, GrammarBodyEnd(s) + 1, Len(s)))

\* C25: for a text that matches the grammar, the id is scp- and the body
\* without leading zeros (unknown for the redaction token) followed by every
\* suffix segment of the text, in lower case and in order, and a class tag
\* in any of them makes the kind scp_variant.
C25_EverySuffixKept ==
    (output.by = "normalizeIdentifier" /\ MatchesGrammar(Prepared(input)))
        => /\ output.norm.id = ExpectedId(Prepared(input))
           /\ GrammarSuffixes(Prepared(input)) \cap ClassTags # {}
                 => output.norm.kind = "scp_variant"

\* A step in which emitter.emit('update', ...) is called: a cycle that got
\* past its disposed check and met no fault.
Emits == ev'.ran /\ ev'.fault = "none"

\* C26: a step changes page, entities or lastUpdatedAt only when it emits
\* an update, and a step that emits one has replaced the state by what
\* compute found and calls the listeners, when there are any, with exactly
\* the new state.
C26_ReplaceAndEmitTogether ==
    [][/\ state' # state => Emits
       /\ Emits => /\ ev'.op = "timer" \/ ev'.call \in Computing
                   /\ state' = ComputedState(state, cfg', page, now, "none")
                   /\ listeners # <<>>
                         => /\ Len(stack') = Len(stack) + 1
                            /\ stack'[Len(stack')].payload = getResults(state')]_vars

\* C27: if the mutation notifications eventually stop, a pending timer of
\* a detector that is not disposed leads to the timer's compute, which
\* installs the state of the document as it then is unless it meets a
\* fault; a notification itself computes and emits nothing and, with the
\* observer attached, moves the timer DebounceMs past itself however often
\* that has happened before, and the timer's compute never runs before the
\* timer is due.
C27_ComputeAfterLastMutation ==
    /\ (<>[](ev.op # "mutation"))
          => ((timer.pending /\ ~disposed)
                 ~> (disposed
                     \/ (/\ ev.op = "timer" /\ ev.ran
                         /\ ev.fault = "none"
                               => (state.page = PageOf[page] /\ state.lastUpdatedAt = now))))
    /\ [][/\ ev'.op = "mutation"
                => /\ ~ev'.ran /\ state' = state /\ stack' = stack
                   /\ observer => (timer'.pending /\ timer'.due = now + DebounceMs)
          /\ ev'.op = "timer" => (timer.pending /\ now >= timer.due)]_vars

\* The compute of a timer that a later notification had moved: it runs more
\* than DebounceMs after the detector was made and installs the state of
\* the document it finds.
C27_LateCompute ==
    /\ ev.op = "timer" /\ ev.ran /\ ev.fault = "none"
    /\ now > DebounceMs
    /\ state.page = PageOf[page]
    /\ state.lastUpdatedAt = now

\* C28: refresh() and configure() leave the debounce timer as it is; a
\* pending timer changes only by firing or by a new trigger, and when it
\* fires on a detector that is not disposed it runs a compute of its own,
\* which replaces the state and emits an update whatever was computed in
\* between.
C28_ManualComputeKeepsTimer ==
    [][/\ ev'.call \in Computing => timer' = timer
       /\ (timer.pending /\ timer' # timer)
             => ev'.op \in {"timer", "mutation", "microtask"}
       /\ (ev'.op = "timer" /\ ~disposed)
             => /\ ev'.ran
                /\ state' = ComputedState(state, cfg, page, now, ev'.fault)
                /\ (ev'.fault = "none" /\ listeners # <<>>)
                      => /\ Len(stack') = Len(stack) + 1
                         /\ stack'[Len(stack')].payload = getResults(state')]_vars

\* configure() has recomputed the document while the timer of an earlier
\* trigger is pending and not yet due.
C28_ConfigureBeforeTimer ==
    /\ ev.call = "configure" /\ ev.ran /\ ev.fault = "none"
    /\ state.lastUpdatedAt = now
    /\ timer.pending
    /\ now < timer.due

\* The callback that the step being taken calls, when it is a turn of the
\* loop of the innermost emission.
Called ==
    IF ev'.op = "deliver"
    THEN {SetOf(stack[Len(stack)])[stack[Len(stack)].pos + 1]} ELSE {}

\* C29: dispose() called during an emission leaves every emission in
\* progress with its payload and with the callbacks it had still to call,
\* though none is registered any more; no compute gets past its first line
\* on a disposed detector; off() removes the callback from the Set, and an
\* emission that iterates that Set no longer has it to call.
C29_DisposeKeepsEmission ==
    [][/\ ev'.call = "dispose"
             => /\ disposed' /\ listeners' = <<>>
                /\ Len(stack') = Len(stack)
                /\ \A i \in DOMAIN stack :
                      /\ stack'[i].payload = stack[i].payload
                      /\ Ahead(stack'[i], listeners')
                            = Ahead(stack[i], listeners)
                                 \ (IF i = Len(stack) THEN Called ELSE {})
       /\ ev'.ran => ~disposed
       /\ ev'.call = "off"
             => /\ \A k \in DOMAIN listeners' : listeners'[k] # ev'.sub
                /\ Len(stack') = Len(stack)
                /\ \A i \in DOMAIN stack :
                      ~stack[i].frozen => ev'.sub \notin Ahead(stack'[i], listeners')]_vars

\* A callback is called with the payload by an emission that a callback
\* before it in the same loop has disposed of the detector in.
C29_CalledAfterDispose ==
    /\ ev.op = "deliver" /\ ev.call = "none"
    /\ disposed
    /\ Len(stack) = 1
    /\ stack[1].frozen
    /\ stack[1].pos = 2
    /\ stack[1].set = <<1, 2>>
    /\ stack[1].payload = getResults(state)

\* The position of the first candidate of key k in list.
First(list, k) == CHOOSE i \in Group(list, k) : \A j \in Group(list, k) : i <= j

\* C30: in the candidate list of a compute, links first and then inline
\* mentions, the candidates of one key (id, url) have one score: an inline
\* candidate has no url and score 1, a link candidate has a url, and the
\* link candidates of one url are all high or all medium.  The entity kept
\* for a key is the first candidate of that key.
C30_FirstOfEachKeyKept ==
    output.by = "compute"
        => LET found == output.found
               all == output.all
           IN  /\ \A i, j \in DOMAIN found :
                     /\ KeyOf(found[i]) = KeyOf(found[j])
                           => ScoreOf(found[i]) = ScoreOf(found[j])
                     /\ (found[i].url = found[j].url /\ found[i].context = "link")
                           => found[i].confidence = found[j].confidence
                     /\ (i < j /\ found[i].context = "inline")
                           => found[j].context = "inline"
                     /\ (i < j /\ found[i].context = found[j].context)
                           => found[i].element <= found[j].element
               /\ \A i \in DOMAIN found :
                     IF found[i].context = "inline"
                     THEN found[i].url = NullUrl /\ ScoreOf(found[i]) = 1
                     ELSE found[i].url # NullUrl /\ found[i].confidence \in {"high", "medium"}
               /\ {KeyOf(all[k]) : k \in DOMAIN all} = {KeyOf(found[i]) : i \in DOMAIN found}
               /\ \A k \in DOMAIN all : all[k] = found[First(found, KeyOf(all[k]))]

\* Two links of one key with different texts and two inline mentions of
\* one id: the first of each is kept.
C30_SharedKeys ==
    /\ output.by = "compute"
    /\ \E i, j \in DOMAIN output.found :
          /\ i < j
          /\ output.found[i].context = "link"
          /\ output.found[i].confidence = "medium"
          /\ KeyOf(output.found[i]) = KeyOf(output.found[j])
          /\ output.found[i].displayText # output.found[j].displayText
    /\ \E i, j \in DOMAIN output.found :
          /\ i < j
          /\ output.found[i].context = "inline"
          /\ KeyOf(output.found[i]) = KeyOf(output.found[j])
          /\ output.found[i].element # output.found[j].element
    /\ Len(output.all) < Len(output.found)

====
